---- MODULE Spec2Model ----
(***************************************************************************)
(* The directional-change backtest bots of Assignment-1:                   *)
(*   MaximizePnLBot  (Maximize_PnL.py)            bot = "MaximizePnLBot"   *)
(*   AdvancedDCBot   (enhanced_arbitrage_full.py) bot = "AdvancedDCBot"    *)
(* One step of the model is one iteration of run_backtest's loop over the  *)
(* rows of the DataFrame; the rows are the input.                          *)
(*                                                                         *)
(* Numbers.  Prices are integers in the frame's own unit.  An indicator    *)
(* column holds floats that may be NaN: NaN is << >> and a number is <<v>>, *)
(* v counted in 1/Sub of the price unit (atr, sma, macd, macdsignal) or of *)
(* one percentage point (rsi, stoch_k, stoch_d, adx).  Fractions           *)
(* (dc_threshold, y_value) are num/den pairs, and max_overshoot is a       *)
(* fixed-point number counted in units of its starting value 0.0001        *)
(* (Scale units make 1.0).  The comparisons of the trend logic are         *)
(* cross-multiplied, so they are exact on these numbers.                   *)
(***************************************************************************)
EXTENDS Integers, Sequences, FiniteSets, TLC

VARIABLES
    bot,                \* which class the object is
    mode,               \* params["mode"]
    params,             \* self.params, the dict handed to the constructor
    raw,                \* the bars the script loaded, when it prepares the frame itself; <<>> otherwise
    df,                 \* the frame, when it is fixed up front; <<>> when rows arrive bar by bar
    df_low0,            \* <<df["low"].iloc[0]>>, or << >> when df.empty
    last_close,         \* df["close"].iloc[-1] of the rows iterated so far
    pc,                 \* "ready" | "loop" | "done" | "raised"
    i,                  \* index of the next row iterrows() yields
    current_trend,      \* -1 = down, 1 = up
    last_extreme,       \* last_extreme / last_extreme_price
    max_overshoot,      \* fixed point, Scale = 1.0
    is_position_open,
    entry_price,
    is_trading_paused,
    total_pnl,          \* self.total_pnl
    trades,             \* self.trades
    trade,              \* AdvancedDCBot's local dict `trade`
    result,             \* what run_backtest returned: <<total_pnl, trades>>
    run,                \* 1 for the first call of run_backtest on the object, 2 for the second
    first_result,       \* what the first call returned
    bar,                \* history: what the row processed last looked like (Observe)
    leg_all,            \* history: min low (down) / max high (up) of every bar since the last transition
    leg_run,            \* history: the same over the bars the volatility gate did not skip
    absent,             \* the keys the params dict handed to the constructor lacks
    flat,               \* history: every row so far had high = low = close = the first low
    lowest              \* the least price a row of the frame may hold: 1, or 0 (SpecZero)

vars == <<bot, mode, params, raw, df, df_low0, last_close, pc, i, current_trend,
          last_extreme, max_overshoot, is_position_open, entry_price,
          is_trading_paused, total_pnl, trades, trade, result, run,
          first_result, bar, leg_all, leg_run, absent, flat, lowest>>

----------------------------------------------------------------------------
(* Bounds of the model *)

MaxBars == 3        \* rows in a frame
MaxPrice == 3       \* prices are 1..MaxPrice
MaxRerunBars == 3   \* rows in a frame that is run twice
MaxGap == 4         \* fixed-point steps below 1.0 that max_overshoot starts an up leg with

----------------------------------------------------------------------------
(* Configuration *)

Bots == {"MaximizePnLBot", "AdvancedDCBot"}

StrategyMode == {"FULL_AI", "NO_CLASSIFIER", "NO_VOLATILITY_FILTER", "BASELINE"}

\* A params dict for frames of small integer prices.  volume,
\* rsi_overbought and the periods are the script's values; dc_threshold,
\* y_value and volatility_threshold are a configuration on the scale of the
\* small prices (a reversal is a rise of one half, and the exit band depends
\* on max_overshoot).
grid_params ==
    [ dc_threshold         |-> [num |-> 1, den |-> 2],
      y_value              |-> [num |-> 2, den |-> 1],
      volume               |-> 10000,
      volatility_threshold |-> 2,
      rsi_overbought       |-> 70,
      atr_period           |-> 14,
      sma_period           |-> 50,
      rsi_period           |-> 14 ]

\* max_overshoot = 0.0001
max_overshoot_floor == [num |-> 1, den |-> 10000]

\* fixed-point one
Scale == max_overshoot_floor.den

use_volatility_filter == mode \in {"FULL_AI", "NO_CLASSIFIER"}

use_classifier == mode \in {"FULL_AI", "NO_VOLATILITY_FILTER"}

----------------------------------------------------------------------------
(* Values *)

\* NaN of a float column: the empty tuple; a number v is <<v>>
NaN == << >>

isnan(x) == x = NaN

\* steps of an indicator value inside one price unit or percentage point
Sub == 1000

\* the float of a whole number n
Float(n) == <<n * Sub>>

\* x > y and x < y on floats: a comparison with NaN is False
Gt(x, y) == ~isnan(x) /\ ~isnan(y) /\ x[1] > y[1]

Lt(x, y) == ~isnan(x) /\ ~isnan(y) /\ x[1] < y[1]

Max(a, b) == IF a >= b THEN a ELSE b

Min(a, b) == IF a <= b THEN a ELSE b

\* a Python dict is a function on its keys; {} is the function on no key
EmptyDict == [k \in {} |-> 0]

\* d.update(u)
Update(d, u) ==
    [k \in (DOMAIN d) \cup (DOMAIN u) |-> IF k \in DOMAIN u THEN u[k] ELSE d[k]]

HasKey(d, k) == k \in DOMAIN d

----------------------------------------------------------------------------
(* math.exp(-x) in fixed point: 1 / (1 + x + x^2/2! + ...) *)

RECURSIVE ExpSeries(_, _, _)
ExpSeries(x, k, term) ==
    IF term = 0 THEN 0
    ELSE term + ExpSeries(x, k + 1, (term * x) \div (k * Scale))

Exp(x) == ExpSeries(x, 1, Scale)

\* float('inf'), above every finite overshoot of the model
Infinity == 1000000000

\* math.exp(-x); math.exp(-inf) is 0.0
ExpNeg(x) == IF x = Infinity THEN 0 ELSE (Scale * Scale) \div Exp(x)

----------------------------------------------------------------------------
(* Rows of the frame: the price columns and the indicator columns *)

Prices == 1..MaxPrice

PriceRows ==
    {p \in [low : Prices, close : Prices, high : Prices] :
        p.low <= p.close /\ p.close <= p.high}

\* the profile on which every confirmation passes and the gate stays open
Confirming ==
    [ atr |-> Float(grid_params.volatility_threshold - 1), sma |-> Float(1),
      rsi |-> Float(grid_params.rsi_overbought - 20),
      macd |-> Float(1), macdsignal |-> Float(0),
      stoch_k |-> Float(80), stoch_d |-> Float(50), adx |-> Float(30) ]

\* AdvancedDCBot's script drops every row with a NaN (dropna);
\* MaximizePnLBot's back-fills, which leaves a column NaN when it has no
\* defined value after the row
IndicatorValues(b) ==
    [ atr : {Float(grid_params.volatility_threshold - 1),
             Float(grid_params.volatility_threshold + 1)},
      sma : {Float(1), Float(MaxPrice)}
            \cup (IF b = "MaximizePnLBot" THEN {NaN} ELSE {}),
      rsi : {Float(grid_params.rsi_overbought - 20),
             Float(grid_params.rsi_overbought + 10)},
      macd : {Float(1), Float(-1)}, macdsignal : {Float(0)},
      stoch_k : {Float(80), Float(20)}, stoch_d : {Float(50)},
      adx : {Float(30), Float(20), Float(5)} ]

Off(x) == {c \in DOMAIN Confirming : x[c] # Confirming[c]}

\* the profiles that leave the confirming one in at most one column besides atr
IndicatorRows(b) ==
    {x \in IndicatorValues(b) : Cardinality(Off(x) \ {"atr"}) <= 1}

RowsOf(b) == {p @@ x : p \in PriceRows, x \in IndicatorRows(b)}

M_Rows == RowsOf("MaximizePnLBot")

A_Rows == RowsOf("AdvancedDCBot")

Rows(b) == IF b = "MaximizePnLBot" THEN M_Rows ELSE A_Rows

\* rows of a frame that may hold the price 0: every confirmation passes, the
\* ATR is below or above the threshold
Z_PriceRows ==
    {p \in [low : 0..MaxPrice, close : 0..MaxPrice, high : 0..MaxPrice] :
        p.low <= p.close /\ p.close <= p.high}

Z_Rows ==
    {p @@ x : p \in Z_PriceRows,
              x \in {Confirming,
                     [Confirming EXCEPT
                         !.atr = Float(grid_params.volatility_threshold + 1)]}}

----------------------------------------------------------------------------
(* The tests of the trend logic *)

\* mutant: the reversal test without the threshold
ReversalCandidate_NoThreshold(high, extreme) ==
    high >= extreme

\* high >= last_extreme * (1 + dc_threshold)
ReversalCandidate(high, extreme) ==
    high * params.dc_threshold.den
        >= extreme * (params.dc_threshold.den + params.dc_threshold.num)

\* mutant: the exponent has the wrong sign
DynamicExitThreshold_Grows(overshoot) ==
    (params.dc_threshold.num * params.y_value.num * Exp(overshoot))
        \div (params.dc_threshold.den * params.y_value.den)

\* dc_threshold * y_value * math.exp(-max_overshoot), Scale = 1.0
DynamicExitThreshold(overshoot) ==
    (params.dc_threshold.num * params.y_value.num * ExpNeg(overshoot))
        \div (params.dc_threshold.den * params.y_value.den)

\* low <= last_extreme * (1 - dynamic_exit_threshold)
ExitSignal(low, extreme, overshoot) ==
    low * Scale <= extreme * (Scale - DynamicExitThreshold(overshoot))

\* (exit_price - entry_price) * volume
Pnl(exit_price, entry) == (exit_price - entry) * params.volume

\* (high - base) / base, base nonzero
M_Overshoot(high, base) == ((high - base) * Scale) \div base

\* max(max_overshoot, (high - base) / base) when the division does not raise:
\* on floats that divide as numpy does, x / 0.0 is inf for x > 0 and nan for
\* x = 0, and max(a, nan) is a
M_MaxOvershoot(mo, high, base) ==
    IF base # 0 THEN Max(mo, M_Overshoot(high, base))
    ELSE IF high > base THEN Infinity ELSE mo

\* (high - base) / base if base != 0 else 0
A_Overshoot(high, base) ==
    IF base # 0 THEN ((high - base) * Scale) \div base ELSE 0

\* x > row["sma"]: a comparison with NaN is False
AboveSma(x, sma) == Gt(Float(x), sma)

M_RelaxedPass(row) ==
    /\ (IF ~isnan(row.sma) THEN AboveSma(row.high, row.sma) ELSE TRUE)
    /\ Lt(row.rsi, Float(params.rsi_overbought))
    /\ Gt(row.adx, Float(10))

M_StrictPass(row) ==
    /\ AboveSma(row.high, row.sma)
    /\ Lt(row.rsi, Float(params.rsi_overbought))
    /\ Gt(row.macd, row.macdsignal)
    /\ Gt(row.stoch_k, row.stoch_d)
    /\ Gt(row.adx, Float(10))

\* classifier_pass of MaximizePnLBot: the relaxed expression, overwritten
\* by the strict one when use_classifier
M_ClassifierPass(row) ==
    IF use_classifier THEN M_StrictPass(row) ELSE M_RelaxedPass(row)

A_StrictPass(row) ==
    /\ AboveSma(row.high, row.sma)
    /\ Lt(row.rsi, Float(params.rsi_overbought))
    /\ Gt(row.macd, row.macdsignal)
    /\ Gt(row.stoch_k, row.stoch_d)
    /\ Gt(row.adx, Float(25))

\* classifier_pass of AdvancedDCBot: True unless use_classifier
A_ClassifierPass(row) ==
    IF use_classifier THEN A_StrictPass(row) ELSE TRUE

----------------------------------------------------------------------------
(* The confirmation tiers as the specification words them (section 4.2) *)

RelaxedTier(row) ==
    /\ (isnan(row.sma) \/ AboveSma(row.high, row.sma))
    /\ Lt(row.rsi, Float(params.rsi_overbought))
    /\ Gt(row.adx, Float(10))

StrictTier(row) ==
    /\ AboveSma(row.high, row.sma)
    /\ Lt(row.rsi, Float(params.rsi_overbought))
    /\ Gt(row.macd, row.macdsignal)
    /\ Gt(row.stoch_k, row.stoch_d)
    /\ Gt(row.adx, Float(25))

\* what the history keeps of a row
Observe(row) ==
    [ atr_high |-> Gt(row.atr, Float(params.volatility_threshold)),
      relaxed  |-> RelaxedTier(row),
      strict   |-> StrictTier(row) ]

NoBar == [atr_high |-> FALSE, relaxed |-> FALSE, strict |-> FALSE]

----------------------------------------------------------------------------
(* The state a bar handler reads and writes, as one record *)

S ==
    [ current_trend     |-> current_trend,
      last_extreme      |-> last_extreme,
      max_overshoot     |-> max_overshoot,
      is_position_open  |-> is_position_open,
      entry_price       |-> entry_price,
      is_trading_paused |-> is_trading_paused,
      total_pnl         |-> total_pnl,
      trades            |-> trades,
      trade             |-> trade ]

SetState(s) ==
    /\ current_trend' = s.current_trend
    /\ last_extreme' = s.last_extreme
    /\ max_overshoot' = s.max_overshoot
    /\ is_position_open' = s.is_position_open
    /\ entry_price' = s.entry_price
    /\ is_trading_paused' = s.is_trading_paused
    /\ total_pnl' = s.total_pnl
    /\ trades' = s.trades
    /\ trade' = s.trade

\* trades[-1].update(u)
UpdateLast(ledger, u) ==
    [ledger EXCEPT ![Len(ledger)] = Update(ledger[Len(ledger)], u)]

----------------------------------------------------------------------------
(* MaximizePnLBot.run_backtest, one row *)

\* mutant: the entry starts max_overshoot again from the floor
M_Enter_ResetsOvershoot(s, row, idx) ==
    [s EXCEPT
        !.entry_price = row.high,
        !.is_position_open = TRUE,
        !.last_extreme = row.high,
        !.max_overshoot =
            M_MaxOvershoot((max_overshoot_floor.num * Scale)
                               \div max_overshoot_floor.den,
                           row.high, s.last_extreme),
        !.current_trend = 1,
        !.trades = Append(s.trades,
                          [entry_price |-> row.high, entry_idx |-> idx])]

\* the entry: s.last_extreme is the extreme after this bar's low
M_Enter(s, row, idx) ==
    [s EXCEPT
        !.entry_price = row.high,
        !.is_position_open = TRUE,
        !.last_extreme = row.high,
        !.max_overshoot =
            M_MaxOvershoot(s.max_overshoot, row.high, s.last_extreme),
        !.current_trend = 1,
        !.trades = Append(s.trades,
                          [entry_price |-> row.high, entry_idx |-> idx])]

\* mutant: the exit forgets to clear is_position_open
M_Exit_StaysOpen(s, row, idx) ==
    LET pnl == Pnl(row.low, s.entry_price) IN
    [s EXCEPT
        !.total_pnl = s.total_pnl + pnl,
        !.trades = UpdateLast(s.trades,
            [exit_price |-> row.low, pnl |-> pnl, exit_idx |-> idx]),
        !.current_trend = -1,
        !.last_extreme = row.low]

\* the trailing-stop exit
M_Exit(s, row, idx) ==
    LET pnl == Pnl(row.low, s.entry_price) IN
    [s EXCEPT
        !.total_pnl = s.total_pnl + pnl,
        !.trades = UpdateLast(s.trades,
            [exit_price |-> row.low, pnl |-> pnl, exit_idx |-> idx]),
        !.is_position_open = FALSE,
        !.current_trend = -1,
        !.last_extreme = row.low]

M_Down(s, row, idx) ==
    LET s1 == [s EXCEPT !.last_extreme =
                   IF row.low < s.last_extreme THEN row.low ELSE s.last_extreme]
    IN  IF ReversalCandidate(row.high, s1.last_extreme)
        THEN IF s1.is_trading_paused THEN s1
             ELSE IF M_ClassifierPass(row) THEN M_Enter(s1, row, idx) ELSE s1
        ELSE s1

\* mutant: the up state does not follow the highs
M_Up_NoTrack(s, row, idx) ==
    IF s.is_position_open
    THEN LET s2 == [s EXCEPT !.max_overshoot =
                       M_MaxOvershoot(s.max_overshoot, row.high,
                                      s.entry_price)]
         IN  IF ExitSignal(row.low, s2.last_extreme, s2.max_overshoot)
             THEN M_Exit(s2, row, idx)
             ELSE s2
    ELSE s

M_Up(s, row, idx) ==
    LET s1 == [s EXCEPT !.last_extreme =
                   IF row.high > s.last_extreme THEN row.high ELSE s.last_extreme]
    IN  IF s1.is_position_open
        THEN LET s2 == [s1 EXCEPT !.max_overshoot =
                           M_MaxOvershoot(s1.max_overshoot, row.high,
                                          s1.entry_price)]
             IN  IF ExitSignal(row.low, s2.last_extreme, s2.max_overshoot)
                 THEN M_Exit(s2, row, idx)
                 ELSE s2
        ELSE s1

\* mutant: the filter compares the ATR with a threshold that is too low
M_GateSkips_LowThreshold(row) ==
    use_volatility_filter
        /\ Gt(row.atr, Float(params.volatility_threshold - 2))

\* the volatility filter: a bar above the threshold is skipped (continue)
M_GateSkips(row) ==
    use_volatility_filter /\ Gt(row.atr, Float(params.volatility_threshold))

\* mutant: a bar that exits goes on to the down state's logic
M_ProcessBar_ReEnters(s, row, idx) ==
    IF M_GateSkips(row)
    THEN [s EXCEPT !.is_trading_paused = TRUE]
    ELSE LET s0 == IF use_volatility_filter
                   THEN [s EXCEPT !.is_trading_paused = FALSE]
                   ELSE s
         IN  IF s0.current_trend = -1
             THEN M_Down(s0, row, idx)
             ELSE LET s1 == M_Up(s0, row, idx)
                  IN  IF s1.current_trend = -1
                      THEN M_Down(s1, row, idx)
                      ELSE s1

M_ProcessBar(s, row, idx) ==
    IF M_GateSkips(row)
    THEN [s EXCEPT !.is_trading_paused = TRUE]
    ELSE LET s0 == IF use_volatility_filter
                   THEN [s EXCEPT !.is_trading_paused = FALSE]
                   ELSE s
         IN  IF s0.current_trend = -1
             THEN M_Down(s0, row, idx)
             ELSE M_Up(s0, row, idx)

\* mutant: the force close uses the tracked extreme, not the final close
M_ForceClose_AtExtreme(s, final_price, n) ==
    LET pnl == Pnl(s.last_extreme, s.entry_price) IN
    [s EXCEPT
        !.total_pnl = s.total_pnl + pnl,
        !.trades = UpdateLast(s.trades,
            [exit_price |-> s.last_extreme, pnl |-> pnl, exit_idx |-> n - 1])]

\* the force close after the loop; n = len(df)
M_ForceClose(s, final_price, n) ==
    LET pnl == Pnl(final_price, s.entry_price) IN
    [s EXCEPT
        !.total_pnl = s.total_pnl + pnl,
        !.trades = UpdateLast(s.trades,
            [exit_price |-> final_price, pnl |-> pnl, exit_idx |-> n - 1])]

----------------------------------------------------------------------------
(* AdvancedDCBot.run_backtest, one row; row["date"] is the row's index *)

A_Enter(s, row, idx) ==
    [s EXCEPT
        !.entry_price = row.high,
        !.is_position_open = TRUE,
        !.current_trend = 1,
        !.last_extreme = row.high,
        !.max_overshoot =
            Max(s.max_overshoot, A_Overshoot(row.high, s.last_extreme)),
        !.trade = [entry_date |-> idx, entry_price |-> row.high, pnl |-> 0]]

\* mutant: the exit adds the trade's pnl to the total twice
A_Exit_TwicePnl(s, row, idx) ==
    LET pnl == Pnl(row.low, s.entry_price)
        closed == Update(s.trade,
            [exit_date |-> idx, exit_price |-> row.low, pnl |-> pnl])
    IN
    [s EXCEPT
        !.total_pnl = s.total_pnl + pnl + pnl,
        !.trade = closed,
        !.trades = Append(s.trades, closed),
        !.is_position_open = FALSE,
        !.current_trend = -1,
        !.last_extreme = row.low]

A_Exit(s, row, idx) ==
    LET pnl == Pnl(row.low, s.entry_price)
        closed == Update(s.trade,
            [exit_date |-> idx, exit_price |-> row.low, pnl |-> pnl])
    IN
    [s EXCEPT
        !.total_pnl = s.total_pnl + pnl,
        !.trade = closed,
        !.trades = Append(s.trades, closed),
        !.is_position_open = FALSE,
        !.current_trend = -1,
        !.last_extreme = row.low]

A_Down(s, row, idx) ==
    LET s1 == [s EXCEPT !.last_extreme =
                   IF row.low < s.last_extreme THEN row.low ELSE s.last_extreme]
    IN  IF ReversalCandidate(row.high, s1.last_extreme)
        THEN IF s1.is_trading_paused THEN s1
             ELSE IF A_ClassifierPass(row) THEN A_Enter(s1, row, idx) ELSE s1
        ELSE s1

\* mutant: the up state stores the bar's overshoot, not the maximum
A_Up_NoMax(s, row, idx) ==
    LET s1 == [s EXCEPT !.last_extreme =
                   IF row.high > s.last_extreme THEN row.high ELSE s.last_extreme]
    IN  IF s1.is_position_open
        THEN LET s2 == [s1 EXCEPT !.max_overshoot =
                           A_Overshoot(row.high, s1.entry_price)]
             IN  IF ExitSignal(row.low, s2.last_extreme, s2.max_overshoot)
                 THEN A_Exit(s2, row, idx)
                 ELSE s2
        ELSE s1

A_Up(s, row, idx) ==
    LET s1 == [s EXCEPT !.last_extreme =
                   IF row.high > s.last_extreme THEN row.high ELSE s.last_extreme]
    IN  IF s1.is_position_open
        THEN LET s2 == [s1 EXCEPT !.max_overshoot =
                           Max(s1.max_overshoot,
                               A_Overshoot(row.high, s1.entry_price))]
             IN  IF ExitSignal(row.low, s2.last_extreme, s2.max_overshoot)
                 THEN A_Exit(s2, row, idx)
                 ELSE s2
        ELSE s1

\* the volatility filter: it sets and clears the pause, and skips nothing
A_Gate(s, row) ==
    LET is_high_volatility == Gt(row.atr, Float(params.volatility_threshold))
    IN
    IF ~use_volatility_filter THEN s
    ELSE IF is_high_volatility /\ ~s.is_trading_paused
         THEN [s EXCEPT !.is_trading_paused = TRUE]
         ELSE IF ~is_high_volatility /\ s.is_trading_paused
              THEN [s EXCEPT !.is_trading_paused = FALSE]
              ELSE s

A_ProcessBar(s, row, idx) ==
    IF isnan(row.sma) THEN s
    ELSE LET s0 == A_Gate(s, row)
         IN  IF s0.current_trend = -1
             THEN A_Down(s0, row, idx)
             ELSE IF s0.current_trend = 1 THEN A_Up(s0, row, idx) ELSE s0

\* mutant: the force close does not add its pnl to total_pnl
A_ForceClose_NoTotal(s, final_price, n) ==
    LET pnl == Pnl(final_price, s.entry_price)
        closed == Update(s.trade,
            [exit_date |-> n - 1, exit_price |-> final_price, pnl |-> pnl])
    IN
    [s EXCEPT
        !.trade = closed,
        !.trades = Append(s.trades, closed)]

\* the force close after the loop; n = len(df)
A_ForceClose(s, final_price, n) ==
    LET pnl == Pnl(final_price, s.entry_price)
        closed == Update(s.trade,
            [exit_date |-> n - 1, exit_price |-> final_price, pnl |-> pnl])
    IN
    [s EXCEPT
        !.total_pnl = s.total_pnl + pnl,
        !.trade = closed,
        !.trades = Append(s.trades, closed)]

----------------------------------------------------------------------------
(* self.params[key] raises KeyError when the dict lacks the key.  Neither   *)
(* constructor looks a strategy parameter up; run_backtest does, at the     *)
(* place of the code that needs it.                                         *)

ParamKeys ==
    {"dc_threshold", "y_value", "volume", "volatility_threshold",
     "rsi_overbought"}

\* the bar's path through MaximizePnLBot.run_backtest looks a missing key up
M_KeyError(s, row) ==
    IF use_volatility_filter /\ "volatility_threshold" \in absent THEN TRUE
    ELSE IF M_GateSkips(row) THEN FALSE
    ELSE IF s.current_trend = -1
         THEN \/ "dc_threshold" \in absent
              \/ /\ ReversalCandidate(row.high, Min(s.last_extreme, row.low))
                 /\ (isnan(row.sma) \/ AboveSma(row.high, row.sma))
                 /\ "rsi_overbought" \in absent
         ELSE /\ s.is_position_open
              /\ \/ "dc_threshold" \in absent
                 \/ "y_value" \in absent
                 \/ /\ "volume" \in absent
                    /\ ExitSignal(row.low, Max(s.last_extreme, row.high),
                                  M_MaxOvershoot(s.max_overshoot, row.high,
                                                 s.entry_price))

\* what the bar has written when the KeyError is raised
M_AtKeyError(s, row) ==
    IF use_volatility_filter /\ "volatility_threshold" \in absent THEN s
    ELSE LET s0 == IF use_volatility_filter
                   THEN [s EXCEPT !.is_trading_paused = FALSE]
                   ELSE s
         IN  IF s0.current_trend = -1
             THEN [s0 EXCEPT !.last_extreme = Min(@, row.low)]
             ELSE [s0 EXCEPT
                      !.last_extreme = Max(@, row.high),
                      !.max_overshoot =
                          M_MaxOvershoot(@, row.high, s0.entry_price)]

\* the bar's path through AdvancedDCBot.run_backtest looks a missing key up
A_KeyError(s, row) ==
    IF isnan(row.sma) THEN FALSE
    ELSE IF use_volatility_filter /\ "volatility_threshold" \in absent THEN TRUE
    ELSE IF s.current_trend = -1
         THEN \/ "dc_threshold" \in absent
              \/ /\ ReversalCandidate(row.high, Min(s.last_extreme, row.low))
                 /\ ~A_Gate(s, row).is_trading_paused
                 /\ use_classifier
                 /\ "rsi_overbought" \in absent
         ELSE /\ s.current_trend = 1
              /\ s.is_position_open
              /\ \/ "dc_threshold" \in absent
                 \/ "y_value" \in absent
                 \/ /\ "volume" \in absent
                    /\ ExitSignal(row.low, Max(s.last_extreme, row.high),
                                  Max(s.max_overshoot,
                                      A_Overshoot(row.high, s.entry_price)))

\* what the bar has written when the KeyError is raised
A_AtKeyError(s, row) ==
    IF use_volatility_filter /\ "volatility_threshold" \in absent THEN s
    ELSE LET s0 == A_Gate(s, row)
         IN  IF s0.current_trend = -1
             THEN [s0 EXCEPT !.last_extreme = Min(@, row.low)]
             ELSE [s0 EXCEPT
                      !.last_extreme = Max(@, row.high),
                      !.max_overshoot =
                          Max(@, A_Overshoot(row.high, s0.entry_price))]

\* the bar's path through MaximizePnLBot.run_backtest divides by 0.0: at an
\* entry on an old extreme of 0, or in the up state on an entry price of 0
M_ZeroDivision(s, row) ==
    /\ ~M_GateSkips(row)
    /\ IF s.current_trend = -1
       THEN /\ Min(s.last_extreme, row.low) = 0
            /\ ReversalCandidate(row.high, 0)
            /\ M_ClassifierPass(row)
       ELSE s.is_position_open /\ s.entry_price = 0

\* what the bar has written when the division raises ZeroDivisionError
M_AtZeroDivision(s, row) ==
    LET s0 == IF use_volatility_filter
              THEN [s EXCEPT !.is_trading_paused = FALSE]
              ELSE s
    IN  IF s0.current_trend = -1
        THEN [s0 EXCEPT
                 !.entry_price = row.high,
                 !.is_position_open = TRUE,
                 !.last_extreme = row.high]
        ELSE [s0 EXCEPT !.last_extreme = Max(@, row.high)]

KeyError(s, row) ==
    /\ absent # {}
    /\ IF bot = "MaximizePnLBot" THEN M_KeyError(s, row) ELSE A_KeyError(s, row)

AtKeyError(s, row) ==
    IF bot = "MaximizePnLBot" THEN M_AtKeyError(s, row) ELSE A_AtKeyError(s, row)

----------------------------------------------------------------------------
(* The scripts' indicator pipeline.  A Series is a sequence of floats; the  *)
(* exponential and rolling means are rounded down to 1/Sub.                 *)

\* df[c] of the loaded bars: a price column as floats
Column(frame, c) == [k \in 1..Len(frame) |-> Float(frame[k][c])]

\* x - y
Minus(x, y) == IF isnan(x) \/ isnan(y) THEN NaN ELSE <<x[1] - y[1]>>

\* np.abs(x)
Abs(x) == IF isnan(x) THEN NaN ELSE <<IF x[1] < 0 THEN -x[1] ELSE x[1]>>

\* series.shift()
Shift(xs) == [k \in 1..Len(xs) |-> IF k = 1 THEN NaN ELSE xs[k - 1]]

\* series.diff()
Diff(xs) == [k \in 1..Len(xs) |-> Minus(xs[k], Shift(xs)[k])]

\* max / min of a set of floats, NaN skipped (pandas skipna); NaN when empty
RowMax(vs) ==
    LET ns == {v[1] : v \in vs \ {NaN}}
    IN  IF ns = {} THEN NaN ELSE <<CHOOSE n \in ns : \A m \in ns : m <= n>>

RowMin(vs) ==
    LET ns == {v[1] : v \in vs \ {NaN}}
    IN  IF ns = {} THEN NaN ELSE <<CHOOSE n \in ns : \A m \in ns : n <= m>>

\* series.ewm(alpha=num/den, adjust=False).mean(): NaN until the first
\* number, then y = (1 - alpha) * y + alpha * x; a NaN after a number keeps y
RECURSIVE EwmFrom(_, _, _, _)
EwmFrom(xs, num, den, prev) ==
    IF xs = << >> THEN << >>
    ELSE LET x == Head(xs)
             y == IF isnan(x) THEN prev
                  ELSE IF isnan(prev) THEN x
                       ELSE <<((den - num) * prev[1] + num * x[1]) \div den>>
         IN  <<y>> \o EwmFrom(Tail(xs), num, den, y)

Ewm(xs, num, den) == EwmFrom(xs, num, den, NaN)

\* the window of the last w values at row k
Window(xs, w, k) == {xs[j] : j \in (k - w + 1)..k}

RECURSIVE Sum(_, _, _)
Sum(xs, from, to) ==
    IF from > to THEN 0 ELSE xs[from][1] + Sum(xs, from + 1, to)

\* series.rolling(window=w).min() / .max() / .mean(): NaN until w rows, and
\* NaN where the window holds a NaN
RollingMin(xs, w) ==
    [k \in 1..Len(xs) |->
        IF k < w \/ NaN \in Window(xs, w, k) THEN NaN
        ELSE RowMin(Window(xs, w, k))]

RollingMax(xs, w) ==
    [k \in 1..Len(xs) |->
        IF k < w \/ NaN \in Window(xs, w, k) THEN NaN
        ELSE RowMax(Window(xs, w, k))]

RollingMean(xs, w) ==
    [k \in 1..Len(xs) |->
        IF k < w \/ NaN \in Window(xs, w, k) THEN NaN
        ELSE <<Sum(xs, k - w + 1, k) \div w>>]

\* 100 * (x / y) on floats that divide as numpy does: 0 / 0 is nan and
\* x / 0 is inf (x > 0 here)
Ratio100(x, y) ==
    IF isnan(x) \/ isnan(y) THEN NaN
    ELSE IF y[1] = 0 THEN (IF x[1] = 0 THEN NaN ELSE <<Infinity>>)
         ELSE <<(100 * Sub * x[1]) \div y[1]>>

\* tr: max(high - low, |high - close.shift()|, |low - close.shift()|)
TrueRange(frame) ==
    LET high == Column(frame, "high")
        low == Column(frame, "low")
        prev == Shift(Column(frame, "close"))
    IN  [k \in 1..Len(frame) |->
            RowMax({Minus(high[k], low[k]),
                    Abs(Minus(high[k], prev[k])),
                    Abs(Minus(low[k], prev[k]))})]

calculate_atr(frame, period) == Ewm(TrueRange(frame), 1, period)

\* mutant: a zero average loss gives a middling RSI instead of 100
Rsi_NeverSaturates(gain, loss) ==
    IF gain[1] = 0 /\ loss[1] = 0 THEN NaN
    ELSE IF loss[1] = 0 THEN Float(50)
         ELSE <<(100 * Sub * gain[1]) \div (gain[1] + loss[1])>>

\* 100 - 100 / (1 + gain / loss): gain / loss is nan for 0 / 0, which makes
\* the RSI nan, and -inf for gain / -0.0, which makes it 100
Rsi(gain, loss) ==
    IF gain[1] = 0 /\ loss[1] = 0 THEN NaN
    ELSE IF loss[1] = 0 THEN Float(100)
         ELSE <<(100 * Sub * gain[1]) \div (gain[1] + loss[1])>>

calculate_rsi(close, period) ==
    LET delta == Diff(close)
        ups == [k \in 1..Len(close) |->
                   IF Gt(delta[k], Float(0)) THEN delta[k] ELSE Float(0)]
        downs == [k \in 1..Len(close) |->
                     IF Lt(delta[k], Float(0))
                     THEN Minus(Float(0), delta[k]) ELSE Float(0)]
        gain == Ewm(ups, 1, period)
        loss == Ewm(downs, 1, period)
    IN  [k \in 1..Len(close) |-> Rsi(gain[k], loss[k])]

\* fast=12, slow=26, signal=9; span s is alpha = 2 / (s + 1)
calculate_macd(close) ==
    LET ema_fast == Ewm(close, 2, 12 + 1)
        ema_slow == Ewm(close, 2, 26 + 1)
        macd_line == [k \in 1..Len(close) |-> Minus(ema_fast[k], ema_slow[k])]
    IN  [macd |-> macd_line, macdsignal |-> Ewm(macd_line, 2, 9 + 1)]

\* k=9, d=3, smooth_k=9; low <= close <= high in every row, so a window
\* without range gives 0 / 0
calculate_stoch(frame) ==
    LET close == Column(frame, "close")
        lowest_low == RollingMin(Column(frame, "low"), 9)
        highest_high == RollingMax(Column(frame, "high"), 9)
        raw_k == [k \in 1..Len(frame) |->
                     Ratio100(Minus(close[k], lowest_low[k]),
                              Minus(highest_high[k], lowest_low[k]))]
        percent_k == RollingMean(raw_k, 9)
    IN  [stoch_k |-> percent_k, stoch_d |-> RollingMean(percent_k, 3)]

\* 100 * |plus_di - minus_di| / (plus_di + minus_di), the denominator
\* replaced by 1 where it is 0 (a NaN is not 0 and stays)
Dx(plus_di, minus_di) ==
    IF isnan(plus_di) \/ isnan(minus_di) THEN NaN
    ELSE IF plus_di[1] + minus_di[1] = 0 THEN Float(0)
         ELSE <<100 * ((Abs(Minus(plus_di, minus_di))[1] * Sub)
                          \div (plus_di[1] + minus_di[1]))>>

\* period=14 (the scripts call it with the default)
calculate_adx(frame) ==
    LET n == Len(frame)
        atr == Ewm(TrueRange(frame), 1, 14)
        delta_up == Diff(Column(frame, "high"))
        delta_down == [k \in 1..n |->
                          Minus(Float(0), Diff(Column(frame, "low"))[k])]
        plus_dm == [k \in 1..n |->
                       IF Gt(delta_up[k], delta_down[k])
                          /\ Gt(delta_up[k], Float(0))
                       THEN delta_up[k] ELSE Float(0)]
        minus_dm == [k \in 1..n |->
                        IF Gt(delta_down[k], delta_up[k])
                           /\ Gt(delta_down[k], Float(0))
                        THEN delta_down[k] ELSE Float(0)]
        plus_ewm == Ewm(plus_dm, 1, 14)
        minus_ewm == Ewm(minus_dm, 1, 14)
        dx == [k \in 1..n |->
                  Dx(Ratio100(plus_ewm[k], atr[k]),
                     Ratio100(minus_ewm[k], atr[k]))]
    IN  Ewm(dx, 1, 14)

IndicatorColumns ==
    {"atr", "sma", "rsi", "macd", "macdsignal", "stoch_k", "stoch_d", "adx"}

\* the frame with its eight indicator columns
Indicators(frame, prm) ==
    LET close == Column(frame, "close")
        atr == calculate_atr(frame, prm.atr_period)
        sma == RollingMean(close, prm.sma_period)
        rsi == calculate_rsi(close, prm.rsi_period)
        macd == calculate_macd(close)
        stoch == calculate_stoch(frame)
        adx == calculate_adx(frame)
    IN  [k \in 1..Len(frame) |->
            frame[k] @@
            [ atr |-> atr[k], sma |-> sma[k], rsi |-> rsi[k],
              macd |-> macd.macd[k], macdsignal |-> macd.macdsignal[k],
              stoch_k |-> stoch.stoch_k[k], stoch_d |-> stoch.stoch_d[k],
              adx |-> adx[k] ]]

\* the next value of the column that is not NaN, from row k on; NaN if none
RECURSIVE NextValid(_, _, _)
NextValid(frame, c, k) ==
    IF k > Len(frame) THEN NaN
    ELSE IF ~isnan(frame[k][c]) THEN frame[k][c]
         ELSE NextValid(frame, c, k + 1)

\* df.fillna(method="bfill"): the price columns hold no NaN
bfill(frame) ==
    [k \in 1..Len(frame) |->
        [c \in DOMAIN frame[k] |->
            IF c \in IndicatorColumns
            THEN NextValid(frame, c, k) ELSE frame[k][c]]]

\* the row has a number in every indicator column
Defined(row) == \A c \in IndicatorColumns : ~isnan(row[c])

\* df.dropna()
dropna(frame) == SelectSeq(frame, Defined)

\* the script stops before it builds a bot: AdvancedDCBot's raises
\* ValueError when the data has fewer rows than sma_period
TooShort(b, frame, prm) ==
    b = "AdvancedDCBot" /\ Len(frame) < prm.sma_period

\* the frame the script hands to the constructor
Prepare(b, frame, prm) ==
    IF TooShort(b, frame, prm) THEN << >>
    ELSE IF b = "MaximizePnLBot"
         THEN bfill(Indicators(frame, prm))
         ELSE dropna(Indicators(frame, prm))

----------------------------------------------------------------------------
(* Construction *)

df_empty == df_low0 = << >>

Floor == (max_overshoot_floor.num * Scale) \div max_overshoot_floor.den

\* mutant: no constructor checks for an empty frame
Construct_NoEmptyCheck ==
    /\ pc = "ready"
    /\ i = 0
    /\ current_trend = -1
    /\ last_extreme =
         IF bot = "MaximizePnLBot" /\ ~df_empty THEN df_low0[1] ELSE 0
    /\ max_overshoot = Floor
    /\ is_position_open = FALSE
    /\ entry_price = 0
    /\ is_trading_paused = FALSE
    /\ total_pnl = 0
    /\ trades = << >>
    /\ trade = EmptyDict
    /\ result = << >>
    /\ run = 1
    /\ first_result = << >>
    /\ last_close = 0
    /\ bar = NoBar
    /\ leg_all = last_extreme
    /\ leg_run = last_extreme
    /\ flat = TRUE

\* __init__.  MaximizePnLBot raises ValueError on an empty frame and keeps
\* the whole trend state in the object; AdvancedDCBot keeps total_pnl and
\* trades in the object and creates the rest at the start of run_backtest
\* (shown here with the values that start gives them).
Construct ==
    /\ pc = IF bot = "MaximizePnLBot" /\ df_empty THEN "raised" ELSE "ready"
    /\ i = 0
    /\ current_trend = -1
    /\ last_extreme =
         IF bot = "MaximizePnLBot" /\ ~df_empty THEN df_low0[1] ELSE 0
    /\ max_overshoot = Floor
    /\ is_position_open = FALSE
    /\ entry_price = 0
    /\ is_trading_paused = FALSE
    /\ total_pnl = 0
    /\ trades = << >>
    /\ trade = EmptyDict
    /\ result = << >>
    /\ run = 1
    /\ first_result = << >>
    /\ last_close = 0
    /\ bar = NoBar
    /\ leg_all = last_extreme
    /\ leg_run = last_extreme
    /\ flat = TRUE

\* the rows arrive bar by bar
Init ==
    /\ bot \in Bots
    /\ mode \in StrategyMode
    /\ df = << >>
    /\ df_low0 \in {NaN} \cup {<<l>> : l \in Prices}
    /\ params = grid_params
    /\ raw = << >>
    /\ absent = {}
    /\ lowest = 1
    /\ Construct

----------------------------------------------------------------------------
(* run_backtest *)

\* the locals AdvancedDCBot.run_backtest creates before its loop
A_Locals(s) ==
    [s EXCEPT
        !.current_trend = -1,
        !.last_extreme = df_low0[1],
        !.max_overshoot = Floor,
        !.is_position_open = FALSE,
        !.entry_price = 0,
        !.is_trading_paused = FALSE,
        !.trade = EmptyDict]

\* the call of run_backtest, up to the loop
Start ==
    /\ pc = "ready"
    /\ IF bot = "AdvancedDCBot" /\ df_empty
       THEN /\ result' = <<0, << >> >>
            /\ pc' = "done"
            /\ UNCHANGED <<i, current_trend, last_extreme, max_overshoot,
                           is_position_open, entry_price, is_trading_paused,
                           total_pnl, trades, trade, leg_all, leg_run>>
       ELSE /\ pc' = "loop"
            /\ i' = 0
            /\ SetState(IF bot = "AdvancedDCBot" THEN A_Locals(S) ELSE S)
            /\ leg_all' = IF bot = "AdvancedDCBot" THEN df_low0[1] ELSE leg_all
            /\ leg_run' = IF bot = "AdvancedDCBot" THEN df_low0[1] ELSE leg_run
            /\ UNCHANGED result
    /\ UNCHANGED <<bot, mode, params, raw, df, df_low0, last_close, run, first_result, bar,
                   absent, flat, lowest>>

\* the rows iterrows() can yield next
NextRows ==
    IF df # << >>
    THEN IF i < Len(df) THEN {df[i + 1]} ELSE {}
    ELSE IF i < MaxBars
         THEN {r \in (IF lowest = 0 THEN Z_Rows ELSE Rows(bot)) :
                  i = 0 => r.low = df_low0[1]}
         ELSE {}

\* iterrows() is exhausted
EndOfFrame == IF df # << >> THEN i = Len(df) ELSE i >= 1

ProcessBar(s, row, idx) ==
    IF bot = "MaximizePnLBot"
    THEN M_ProcessBar(s, row, idx)
    ELSE A_ProcessBar(s, row, idx)

\* the bar never reaches the trend logic
Skipped(row) ==
    IF bot = "MaximizePnLBot" THEN M_GateSkips(row) ELSE isnan(row.sma)

\* a bar of the flat market: high = low = close, at the first bar's price
FlatBar(row) ==
    /\ row.high = row.low
    /\ row.close = row.low
    /\ row.low = df_low0[1]

\* history of the leg: restarted with the reset price at a transition
LegNext(leg, row, trend_after, counted) ==
    IF trend_after # current_trend
    THEN IF trend_after = 1 THEN row.high ELSE row.low
    ELSE IF ~counted THEN leg
         ELSE IF current_trend = -1
              THEN Min(leg, row.low)
              ELSE Max(leg, row.high)

\* how the bar can end: "none" when it runs through.  A frame's floats are
\* Python floats, whose division by 0.0 raises, or numpy floats, whose
\* division gives inf or nan: either can be what the bar meets.
Raises(s, row) ==
    IF KeyError(s, row) THEN {"KeyError"}
    ELSE IF lowest = 0 /\ bot = "MaximizePnLBot" /\ M_ZeroDivision(s, row)
         THEN {"none", "ZeroDivisionError"}
         ELSE {"none"}

\* one iteration of the loop: the bar is processed, or an exception ends the
\* run with what the bar had written so far
Iterate ==
    /\ pc = "loop"
    /\ \E row \in NextRows :
         \E exc \in Raises(S, row) :
         \E s \in {IF exc = "KeyError" THEN AtKeyError(S, row)
                   ELSE IF exc = "ZeroDivisionError"
                        THEN M_AtZeroDivision(S, row)
                        ELSE ProcessBar(S, row, i)} :
         /\ SetState(s)
         /\ pc' = IF exc = "none" THEN "loop" ELSE "raised"
         /\ bar' = Observe(row)
         /\ last_close' = row.close
         /\ leg_all' = LegNext(leg_all, row, s.current_trend, TRUE)
         /\ leg_run' = LegNext(leg_run, row, s.current_trend, ~Skipped(row))
         /\ flat' = (flat /\ FlatBar(row))
    /\ i' = i + 1
    /\ UNCHANGED <<bot, mode, params, raw, df, df_low0, result, run, first_result, absent,
                   lowest>>

ForceClose(s, final_price, n) ==
    IF bot = "MaximizePnLBot"
    THEN M_ForceClose(s, final_price, n)
    ELSE A_ForceClose(s, final_price, n)

\* after the loop: the force close and the return; the force close looks
\* params["volume"] up
Finish ==
    /\ pc = "loop"
    /\ EndOfFrame
    /\ IF is_position_open /\ "volume" \in absent
       THEN /\ pc' = "raised"
            /\ SetState(S)
            /\ UNCHANGED result
       ELSE /\ \E s \in {IF is_position_open
                          THEN ForceClose(S, last_close, i) ELSE S} :
                 /\ SetState(s)
                 /\ result' = <<s.total_pnl, s.trades>>
            /\ pc' = "done"
    /\ UNCHANGED <<bot, mode, params, raw, df, df_low0, last_close, i, run, first_result,
                   bar, leg_all, leg_run, absent, flat, lowest>>

Next == Start \/ Iterate \/ Finish

Spec == Init /\ [][Next]_vars

----------------------------------------------------------------------------
(* A second call of run_backtest on the same object, over the same frame *)

RerunRows == {p @@ Confirming : p \in PriceRows}

Frames == UNION {[1..n -> RerunRows] : n \in 1..MaxRerunBars}

InitRerun ==
    /\ bot \in Bots
    /\ mode \in StrategyMode
    /\ df \in Frames
    /\ df_low0 = <<df[1].low>>
    /\ params = grid_params
    /\ raw = << >>
    /\ absent = {}
    /\ lowest = 1
    /\ Construct

\* the caller keeps the first result and calls run_backtest again
CallAgain ==
    /\ pc = "done"
    /\ run = 1
    /\ run' = 2
    /\ first_result' = result
    /\ pc' = "ready"
    /\ UNCHANGED <<bot, mode, params, raw, df, df_low0, last_close, i, current_trend,
                   last_extreme, max_overshoot, is_position_open, entry_price,
                   is_trading_paused, total_pnl, trades, trade, result, bar,
                   leg_all, leg_run, absent, flat, lowest>>

NextRerun == Start \/ Iterate \/ Finish \/ CallAgain

SpecRerun == InitRerun /\ [][NextRerun]_vars

----------------------------------------------------------------------------
(* A params dict that lacks one of the strategy parameters *)

InitConfig ==
    /\ bot \in Bots
    /\ mode \in StrategyMode
    /\ df = << >>
    /\ df_low0 \in {<<l>> : l \in Prices}
    /\ params = grid_params
    /\ raw = << >>
    /\ absent \in {{k} : k \in ParamKeys}
    /\ lowest = 1
    /\ Construct

SpecConfig == InitConfig /\ [][Next]_vars

----------------------------------------------------------------------------
(* A frame that may hold the price 0 *)

InitZero ==
    /\ bot \in Bots
    /\ mode \in StrategyMode
    /\ df = << >>
    /\ df_low0 \in {<<l>> : l \in 0..MaxPrice}
    /\ params = grid_params
    /\ raw = << >>
    /\ absent = {}
    /\ lowest = 0
    /\ Construct

SpecZero == InitZero /\ [][Next]_vars

----------------------------------------------------------------------------
(* A bot in an up leg, right after an entry.  Prices are floats in the      *)
(* program, so the overshoot (high - old_extreme) / old_extreme the entry   *)
(* stored is not bound to the quotients of the integer prices used here:    *)
(* max_overshoot is any fixed-point value of a window below 1.0, the        *)
(* overshoot a later bar reaches with a high of twice the entry price.  The *)
(* bars before the entry are not kept (df_low0 is the lowest price).        *)

BandInputs == {Scale - k : k \in 1..MaxGap}

InitBand ==
    /\ bot \in Bots
    /\ mode \in StrategyMode
    /\ df = << >>
    /\ df_low0 = <<1>>
    /\ params = grid_params
    /\ raw = << >>
    /\ absent = {}
    /\ lowest = 1
    /\ pc = "loop"
    /\ i = 1
    /\ current_trend = 1
    /\ entry_price \in Prices
    /\ last_extreme = entry_price
    /\ last_close = entry_price
    /\ max_overshoot \in BandInputs
    /\ is_position_open = TRUE
    /\ is_trading_paused = FALSE
    /\ total_pnl = 0
    /\ trades = IF bot = "MaximizePnLBot"
                THEN <<[entry_price |-> entry_price, entry_idx |-> 0]>>
                ELSE << >>
    /\ trade = IF bot = "MaximizePnLBot"
               THEN EmptyDict
               ELSE [entry_date |-> 0, entry_price |-> entry_price, pnl |-> 0]
    /\ result = << >>
    /\ run = 1
    /\ first_result = << >>
    /\ bar = Observe([low |-> 1, close |-> entry_price, high |-> entry_price]
                     @@ Confirming)
    /\ leg_all = last_extreme
    /\ leg_run = last_extreme
    /\ flat = FALSE

\* the run goes on from the loop: the call itself is behind it
NextBand == Iterate \/ Finish

SpecBand == InitBand /\ [][NextBand]_vars

----------------------------------------------------------------------------
(* The scripts, from the loaded bars on: the indicator columns are computed *)
(* from the bars, the warm-up NaN are back-filled (Maximize_PnL.py) or      *)
(* their rows dropped (enhanced_arbitrage_full.py), and the bot runs over   *)
(* the frame that results.                                                  *)

\* the script raised before it built a bot: nothing ran
Stopped ==
    /\ pc = "raised"
    /\ i = 0
    /\ current_trend = -1
    /\ last_extreme = 0
    /\ max_overshoot = Floor
    /\ is_position_open = FALSE
    /\ entry_price = 0
    /\ is_trading_paused = FALSE
    /\ total_pnl = 0
    /\ trades = << >>
    /\ trade = EmptyDict
    /\ result = << >>
    /\ run = 1
    /\ first_result = << >>
    /\ last_close = 0
    /\ bar = NoBar
    /\ leg_all = 0
    /\ leg_run = 0
    /\ flat = TRUE

\* the bars a script can load: every frame of up to MaxBars bars
RawFrames == UNION {[1..n -> PriceRows] : n \in 1..MaxBars}

\* sma_period: the scripts' 50, and a period that ends inside a short frame
SmaPeriods == {2, grid_params.sma_period}

\* the script's steps 6 and 7 (4 and 5 of enhanced_arbitrage_full.py)
Script ==
    /\ df = Prepare(bot, raw, params)
    /\ df_low0 = IF df = << >> THEN << >> ELSE <<df[1].low>>
    /\ absent = {}
    /\ lowest = 1
    /\ IF TooShort(bot, raw, params) THEN Stopped ELSE Construct

InitPipeline ==
    /\ bot \in Bots
    /\ mode \in StrategyMode
    /\ params \in {[grid_params EXCEPT !.sma_period = p] : p \in SmaPeriods}
    /\ raw \in RawFrames
    /\ Script

SpecPipeline == InitPipeline /\ [][Next]_vars

----------------------------------------------------------------------------
(* The monotonic rise: 20 bars with high = low = close rising linearly from *)
(* 1.0000 to 1.0100.  The price unit is 1/3800, which makes the step of     *)
(* 0.0100 / 19 two units and the 50 pips of the volatility threshold 19.    *)

RiseBars == 20

RiseFirst == 3800

RiseStep == 2

RiseFrame ==
    [k \in 1..RiseBars |->
        [ low   |-> RiseFirst + RiseStep * (k - 1),
          close |-> RiseFirst + RiseStep * (k - 1),
          high  |-> RiseFirst + RiseStep * (k - 1) ]]

\* the params of Maximize_PnL.py, in the price unit of the rise
script_params ==
    [ dc_threshold         |-> [num |-> 1, den |-> 1000],
      y_value              |-> [num |-> 1, den |-> 2],
      volume               |-> 10000,
      volatility_threshold |-> 19,
      rsi_overbought       |-> 70,
      atr_period           |-> 14,
      sma_period           |-> 50,
      rsi_period           |-> 14 ]

\* sma_period: the scripts' 50, and a period the 20 bars outlast
RiseSmaPeriods == {5, script_params.sma_period}

InitRise ==
    /\ bot \in Bots
    /\ mode \in StrategyMode
    /\ params \in {[script_params EXCEPT !.sma_period = p] :
                      p \in RiseSmaPeriods}
    /\ raw = RiseFrame
    /\ Script

SpecRise == InitRise /\ [][Next]_vars

----------------------------------------------------------------------------
(* Vocabulary of the properties *)

\* this step is one iteration of the loop
BarStep == pc = "loop" /\ pc' = "loop" /\ i' = i + 1

\* the positions the records show as open: ledger entries without an exit
\* (MaximizePnLBot), the local trade dict without an exit (AdvancedDCBot)
OpenCount ==
    IF bot = "MaximizePnLBot"
    THEN Cardinality({k \in 1..Len(trades) : ~HasKey(trades[k], "exit_price")})
    ELSE IF HasKey(trade, "entry_price") /\ ~HasKey(trade, "exit_price")
         THEN 1 ELSE 0

\* this step opens a position: a new record of an open trade appears
EntryEvent ==
    IF bot = "MaximizePnLBot"
    THEN Len(trades') = Len(trades) + 1
    ELSE /\ trade' # trade
         /\ HasKey(trade', "entry_price")
         /\ ~HasKey(trade', "exit_price")

\* the returned ledger
Ledger == result[2]

RECURSIVE SumPnl(_)
SumPnl(ledger) ==
    IF ledger = << >> THEN 0
    ELSE ledger[1].pnl + SumPnl(Tail(ledger))

Closed(t) ==
    /\ HasKey(t, "entry_price")
    /\ HasKey(t, "exit_price")
    /\ HasKey(t, "pnl")

----------------------------------------------------------------------------
\* C1: at most one position is open at any time: a step that opens a
\* position starts with no position open (flag clear, no open record) and
\* leaves exactly one, so an exit lies between any two entries.
C1_OnePosition ==
    [][EntryEvent =>
         /\ ~is_position_open
         /\ OpenCount = 0
         /\ OpenCount' = 1
         /\ is_position_open']_vars

\* a second entry after an exit of the first trade
C1_Witness ==
    /\ pc = "loop"
    /\ is_position_open
    /\ OpenCount = 1
    /\ Len(trades) >= 1
    /\ HasKey(trades[1], "exit_price")

\* C2: at the return the total equals the sum of the ledger's pnl fields and
\* every trade's pnl is (exit_price - entry_price) * volume of its own
\* recorded prices.
C2_TotalIsSum ==
    pc = "done" =>
        /\ \A k \in 1..Len(Ledger) :
             /\ Closed(Ledger[k])
             /\ Ledger[k].pnl =
                  (Ledger[k].exit_price - Ledger[k].entry_price) * params.volume
        /\ result[1] = SumPnl(Ledger)

\* a run that returned a signal exit and a forced close, with a total
C2_Witness ==
    /\ pc = "done"
    /\ Len(Ledger) = 2
    /\ is_position_open
    /\ Ledger[1].pnl # 0
    /\ Ledger[2].pnl # 0
    /\ result[1] = Ledger[1].pnl + Ledger[2].pnl

\* C3: no open trade outlives the run: a position open after the last bar is
\* closed at the final bar's close with pnl (final close - entry_price) *
\* volume, and every returned trade has an exit price and a pnl.
C3_ForcedClose ==
    pc = "done" =>
        /\ \A k \in 1..Len(Ledger) : Closed(Ledger[k])
        /\ is_position_open =>
             /\ Ledger # << >>
             /\ Ledger[Len(Ledger)].entry_price = entry_price
             /\ Ledger[Len(Ledger)].exit_price = last_close
             /\ Ledger[Len(Ledger)].pnl =
                  (last_close - entry_price) * params.volume

\* a forced close at a final close away from the entry price and the extreme
C3_Witness ==
    /\ pc = "done"
    /\ is_position_open
    /\ Ledger[Len(Ledger)].exit_price = last_close
    /\ last_close # entry_price
    /\ last_close # last_extreme

\* C4: every returned trade carries a forced-close flag, true exactly for
\* the trade closed by the force close (the last one, when the position was
\* still open after the loop).
C4_ForcedFlag ==
    pc = "done" =>
        \A k \in 1..Len(Ledger) :
            /\ HasKey(Ledger[k], "forced")
            /\ Ledger[k].forced = (k = Len(Ledger) /\ is_position_open)

\* C5: a second run_backtest on the same object over the same frame returns
\* what the first returned.
C5_SameResult ==
    (pc = "done" /\ run = 2) => result = first_result

\* C6 as claimed: after every processed bar the extremum is the min low
\* (down) / max high (up) of all the bars since the last transition.
C6_ExtremumAllBars ==
    (pc = "loop" /\ i >= 1) => last_extreme = leg_all

\* C6 amended: the same over the bars that reached the trend logic; a bar
\* MaximizePnLBot's volatility gate skips is not counted.
C6_ExtremumRunBars ==
    pc = "loop" => last_extreme = leg_run

\* a skipped bar went beyond the extremum that is kept
C6_Witness ==
    /\ pc = "loop"
    /\ i >= 2
    /\ bot = "MaximizePnLBot"
    /\ last_extreme = leg_run
    /\ leg_run # leg_all

\* C7: with the volatility filter on, a bar whose ATR exceeds the threshold
\* sets paused and changes nothing else; any other bar leaves paused clear.
C7_GateFrame ==
    [][(BarStep /\ use_volatility_filter) =>
         IF bar'.atr_high
         THEN /\ is_trading_paused'
              /\ UNCHANGED <<current_trend, last_extreme, max_overshoot,
                             is_position_open, entry_price, total_pnl, trades>>
         ELSE ~is_trading_paused']_vars

\* C8: with the classifier on, every entry is on a bar of the strict tier
\* (ADX above 25), and a bar off the tier met in the down state changes
\* neither trend, position nor ledger.
C8_StrictEntries ==
    [][(BarStep /\ use_classifier) =>
         /\ EntryEvent => bar'.strict
         /\ (current_trend = -1 /\ ~bar'.strict) =>
              UNCHANGED <<current_trend, is_position_open, trades>>]_vars

\* C9: with the classifier off, every entry is on a bar of the relaxed tier,
\* and a bar off the tier met in the down state opens no position.
C9_RelaxedEntries ==
    [][(BarStep /\ ~use_classifier) =>
         /\ EntryEvent => bar'.relaxed
         /\ (current_trend = -1 /\ ~bar'.relaxed) =>
              UNCHANGED <<current_trend, is_position_open, trades>>]_vars

\* C10 as claimed: over an empty frame no bot raises, and the run returns
\* zero pnl and no trades.
C10_EmptyNoOp ==
    df_empty =>
        /\ pc # "raised"
        /\ pc = "done" => result = <<0, << >> >>

\* C10 amended: AdvancedDCBot returns (0.0, []) over an empty frame and
\* MaximizePnLBot's constructor raises ValueError; neither records a trade
\* or a pnl.
C10_EmptyByBot ==
    df_empty =>
        /\ total_pnl = 0
        /\ trades = << >>
        /\ IF bot = "AdvancedDCBot"
           THEN pc # "raised" /\ (pc = "done" => result = <<0, << >> >>)
           ELSE pc = "raised" /\ result = << >>

\* AdvancedDCBot returned over an empty frame
C10_Witness ==
    /\ df_empty
    /\ bot = "AdvancedDCBot"
    /\ pc = "done"
    /\ result = <<0, << >> >>

\* what __init__ and the start of run_backtest have set, with no bar's writes
Untouched ==
    /\ current_trend = -1
    /\ last_extreme = df_low0[1]
    /\ max_overshoot = Floor
    /\ ~is_position_open
    /\ entry_price = 0
    /\ total_pnl = 0
    /\ trades = << >>
    /\ trade = EmptyDict

\* C11: a params dict that lacks a strategy parameter is rejected before the
\* first bar: such a run never completes, and a run that fails has changed
\* neither the trend state, the total pnl nor the ledger.
C11_RejectedUpFront ==
    /\ (pc = "done") => absent = {}
    /\ (pc = "raised" /\ ~df_empty) => Untouched

\* C12 as claimed: while every bar so far is flat (high = low = close at the
\* first bar's price) the reversal never fires: no position, no trade, no
\* pnl, the trend stays down, and such a run returns zero pnl and an empty
\* ledger, in every mode.
C12_FlatMarket ==
    (flat /\ pc \in {"loop", "done"}) =>
        /\ current_trend = -1
        /\ ~is_position_open
        /\ total_pnl = 0
        /\ trades = << >>
        /\ pc = "done" => result = <<0, << >> >>

\* C12 amended: the same of a flat market at a positive price; at the price
\* 0 the test high >= extremum * (1 + dc_threshold) is 0 >= 0 and fires.
C12_FlatPositive ==
    (flat /\ pc \in {"loop", "done"} /\ (df_empty \/ df_low0[1] > 0)) =>
        /\ current_trend = -1
        /\ ~is_position_open
        /\ total_pnl = 0
        /\ trades = << >>
        /\ pc = "done" => result = <<0, << >> >>

\* a flat run of two bars or more at a positive price has returned, its
\* last bar with the gate open and every confirmation passing
C12_Witness ==
    /\ pc = "done"
    /\ flat
    /\ ~df_empty
    /\ df_low0[1] > 0
    /\ i >= 2
    /\ ~bar.atr_high
    /\ bar.relaxed
    /\ bar.strict
    /\ result = <<0, << >> >>

\* C17: every division by the extremum or by the entry price is guarded: no
\* bar raises on a zero divisor, max_overshoot never becomes infinite, and a
\* bar that divides by an old extremum of 0 (an entry) or by an entry price of
\* 0 (a position open) uses the fallback 0, which leaves max_overshoot as
\* it was.
C17_GuardedDivisions ==
    [][/\ pc' # "raised"
       /\ max_overshoot' # Infinity
       /\ (/\ BarStep
           /\ \/ current_trend = -1 /\ last_extreme = 0
              \/ current_trend = 1 /\ is_position_open /\ entry_price = 0)
          => max_overshoot' = max_overshoot]_vars

\* C14: max_overshoot is never below its floor 0.0001, and a bar processed
\* in the up state never lowers it.
C14_OvershootMonotone ==
    [][/\ max_overshoot >= Floor
       /\ max_overshoot' >= Floor
       /\ (BarStep /\ current_trend = 1) => max_overshoot' >= max_overshoot]_vars

\* in an up leg max_overshoot has grown past the floor it had at the entry,
\* to the overshoot of a later, higher high
C14_Witness ==
    /\ pc = "loop"
    /\ current_trend = 1
    /\ is_position_open
    /\ entry_price > 0
    /\ last_extreme > entry_price
    /\ max_overshoot > Floor
    /\ max_overshoot = A_Overshoot(last_extreme, entry_price)
    /\ leg_all = last_extreme

Opens == ~is_position_open /\ is_position_open'

\* C18: a bar opens a position only in the down state and only with
\* high >= extremum * (1 + dc_threshold) on the extremum that already holds
\* the bar's low; the entry sets entry_price and the extremum to the bar's
\* high and the trend to up, and appends a new open trade record to the
\* ledger, which holds the open trade for as long as the position is open.
C18_EntryStep ==
    [][BarStep =>
         /\ Opens =>
              /\ current_trend = -1
              /\ \E row \in NextRows :
                   /\ bar' = Observe(row)
                   /\ last_close' = row.close
                   /\ ReversalCandidate(row.high, Min(last_extreme, row.low))
                   /\ entry_price' = row.high
                   /\ last_extreme' = row.high
              /\ current_trend' = 1
              /\ Len(trades') = Len(trades) + 1
              /\ SubSeq(trades', 1, Len(trades)) = trades
              /\ trades'[Len(trades')].entry_price = entry_price'
         /\ is_position_open' =>
              /\ trades' # << >>
              /\ ~HasKey(trades'[Len(trades')], "exit_price")]_vars

\* this step closes the position inside the loop: a signal exit
Closes == is_position_open /\ ~is_position_open'

\* max_overshoot after the up state has taken the bar's high in
TrackedOvershoot(mo, high, base) ==
    IF bot = "MaximizePnLBot"
    THEN M_MaxOvershoot(mo, high, base)
    ELSE Max(mo, A_Overshoot(high, base))

\* C19: a bar closes the position only in the up state, with the position
\* open and low <= extremum * (1 - dynamic exit threshold) on the extremum
\* and the max_overshoot that already hold the bar's high; the exit records
\* exit_price = low, sets the trend to down and the extremum to the low,
\* clears the flag and adds the trade's pnl to the total, which no other bar
\* and no return without a forced close changes.
C19_ExitStep ==
    [][/\ (BarStep /\ Closes) =>
            /\ current_trend = 1
            /\ \E row \in NextRows :
                 /\ bar' = Observe(row)
                 /\ last_close' = row.close
                 /\ max_overshoot' =
                      TrackedOvershoot(max_overshoot, row.high, entry_price)
                 /\ ExitSignal(row.low, Max(last_extreme, row.high),
                               max_overshoot')
                 /\ trades'[Len(trades')].exit_price = row.low
                 /\ trades'[Len(trades')].pnl = Pnl(row.low, entry_price)
                 /\ total_pnl' = total_pnl + Pnl(row.low, entry_price)
                 /\ last_extreme' = row.low
            /\ current_trend' = -1
       /\ (BarStep /\ ~Closes) => total_pnl' = total_pnl
       /\ (pc = "loop" /\ pc' = "done" /\ ~is_position_open) =>
            total_pnl' = total_pnl]_vars

\* AdvancedDCBot is back in the down state after a signal exit at a loss or
\* a gain, the one trade of the ledger closed and its pnl the total
C19_Witness ==
    /\ pc = "loop"
    /\ bot = "AdvancedDCBot"
    /\ current_trend = -1
    /\ ~is_position_open
    /\ Len(trades) = 1
    /\ HasKey(trades[1], "exit_price")
    /\ trades[1].pnl # 0
    /\ total_pnl = trades[1].pnl

\* C16: after the warm-up policy every indicator value of every bar handed
\* to the state machine is defined: no row the loop has iterated holds a NaN
\* in atr, sma, rsi, macd, macdsignal, stoch_k, stoch_d or adx.
C16_AllDefined ==
    (raw # << >> /\ pc \in {"loop", "done"}) =>
        \A k \in 1..i : Defined(df[k])

\* the state of a bot built on the frame, before its first bar
Built(frame) ==
    [ current_trend     |-> -1,
      last_extreme      |-> frame[1].low,
      max_overshoot     |-> Floor,
      is_position_open  |-> FALSE,
      entry_price       |-> 0,
      is_trading_paused |-> FALSE,
      total_pnl         |-> 0,
      trades            |-> << >>,
      trade             |-> EmptyDict ]

\* the state after the first k bars of the frame
RECURSIVE RunBars(_, _)
RunBars(frame, k) ==
    IF k = 0 THEN Built(frame)
    ELSE ProcessBar(RunBars(frame, k - 1), frame[k], k - 1)

\* C20: what the state machine has seen and done after bar i depends on the
\* bars 0..i only: the rows it was handed, and its state and ledger, are the
\* ones the script produces from the series cut off after bar i, which
\* agrees with the whole series on the bars 0..i.  (Maximize_PnL.py, where
\* every loaded bar is handed to the bot.)
C20_Causal ==
    (raw # << >> /\ bot = "MaximizePnLBot" /\ pc = "loop" /\ i >= 1) =>
        \E cut \in {Prepare(bot, SubSeq(raw, 1, i), params)} :
            /\ SubSeq(df, 1, i) = cut
            /\ S = RunBars(cut, i)

\* the first bar whose high reaches first-low * (1 + dc_threshold)
FirstCrossing ==
    CHOOSE k \in 1..Len(raw) :
        /\ ReversalCandidate(raw[k].high, raw[1].low)
        /\ \A j \in 1..(k - 1) : ~ReversalCandidate(raw[j].high, raw[1].low)

\* C13 as claimed: on the monotonic rise with the classifier disabled the
\* run returns exactly one trade, entered at the high of the first bar that
\* reaches first-low * 1.001, still open after the last bar (no trailing
\* stop closed it) and force-closed at the final close with
\* pnl = (final close - entry price) * volume.
C13_OneEntry ==
    (raw = RiseFrame /\ ~use_classifier /\ pc = "done") =>
        /\ Len(Ledger) = 1
        /\ is_position_open
        /\ Ledger[1].entry_price = raw[FirstCrossing].high
        /\ Ledger[1].exit_price = raw[Len(raw)].close
        /\ Ledger[1].pnl =
             (raw[Len(raw)].close - raw[FirstCrossing].high) * params.volume

\* C13 amended: on the monotonic rise with the classifier disabled no
\* position is ever opened: the trend stays down, the ledger stays empty and
\* a run that returns, returns zero pnl and no trades.
C13_NoEntry ==
    (raw = RiseFrame /\ ~use_classifier) =>
        /\ current_trend = -1
        /\ ~is_position_open
        /\ total_pnl = 0
        /\ trades = << >>
        /\ pc = "done" => result = <<0, << >> >>

\* MaximizePnLBot has run over the 20 bars with the classifier disabled: the
\* last close is above first-low * 1.001, and nothing was traded
C13_Witness ==
    /\ raw = RiseFrame
    /\ ~use_classifier
    /\ bot = "MaximizePnLBot"
    /\ pc = "done"
    /\ i = RiseBars
    /\ last_extreme = raw[1].low
    /\ ReversalCandidate(last_close, last_extreme)
    /\ result = <<0, << >> >>

\* C21: in every state of a run on a fresh bot the position is open exactly
\* when the trend is up.
C21_OpenIffUp ==
    run = 1 => (is_position_open <=> current_trend = 1)

\* the record was closed by the force close: the run returned with the
\* position still flagged open, and the record is the ledger's last
ForceClosed(k) ==
    /\ pc = "done"
    /\ is_position_open
    /\ k = Len(trades)

\* the order of the records of MaximizePnLBot's ledger; the loop has read i
\* bars, so the last bar's index is i - 1
LedgerOrdered ==
    /\ \A k \in 1..Len(trades) :
         HasKey(trades[k], "exit_idx") =>
             IF ForceClosed(k)
             THEN /\ trades[k].entry_idx <= trades[k].exit_idx
                  /\ trades[k].exit_idx = i - 1
             ELSE trades[k].entry_idx < trades[k].exit_idx
    /\ \A k \in 1..(Len(trades) - 1) :
         /\ HasKey(trades[k], "exit_idx")
         /\ trades[k].exit_idx < trades[k + 1].entry_idx

\* C22: in a run of MaximizePnLBot on a fresh bot a bar that opens a trade
\* closes none and a bar that closes a trade opens none, and the ledger is
\* ordered: a trade
\* closed by the signal has entry_idx < exit_idx, the force-closed trade has
\* entry_idx <= exit_idx = the last bar's index, and each trade's exit_idx is
\* below the next trade's entry_idx.
C22_LedgerOrder ==
    [][(bot = "MaximizePnLBot" /\ run' = 1) =>
         /\ (BarStep /\ EntryEvent) =>
                /\ trades' = Append(trades, trades'[Len(trades')])
                /\ ~HasKey(trades'[Len(trades')], "exit_idx")
                /\ trades'[Len(trades')].entry_idx = i
         /\ (BarStep /\ Closes) =>
                /\ Len(trades') = Len(trades)
                /\ trades'[Len(trades')].exit_idx = i
         /\ LedgerOrdered']_vars

\* two trades: the first closed by the signal before the second was entered,
\* the second entered on the last bar and force-closed there
C22_Witness ==
    /\ bot = "MaximizePnLBot"
    /\ run = 1
    /\ pc = "done"
    /\ Len(trades) = 2
    /\ trades[1].entry_idx < trades[1].exit_idx
    /\ trades[1].exit_idx < trades[2].entry_idx
    /\ trades[2].entry_idx = trades[2].exit_idx
    /\ trades[2].exit_idx = i - 1
    /\ Ledger = trades

\* C23: within a run max_overshoot is never reset: no step lowers it, not the
\* bar of an exit, not a bar of the down state, not a later entry and not
\* the return, so the dynamic exit threshold of a later bar is never above
\* the threshold of an earlier bar of the run.
C23_NeverReset ==
    [][(run' = run /\ pc # "ready") =>
         /\ max_overshoot' >= max_overshoot
         /\ DynamicExitThreshold(max_overshoot')
                <= DynamicExitThreshold(max_overshoot)]_vars

\* a second trade is open after the first was closed: it was entered at 2,
\* where the overshoot of the entry is at most 1.0, and max_overshoot is
\* still the 2.0 that the first trade's entry at 3 left
C23_Witness ==
    /\ pc = "loop"
    /\ run = 1
    /\ is_position_open
    /\ Len(trades) >= 1
    /\ HasKey(trades[1], "exit_price")
    /\ trades[1].entry_price = 3
    /\ entry_price = 2
    /\ max_overshoot = 2 * Scale
    /\ DynamicExitThreshold(max_overshoot)
           < DynamicExitThreshold(TrackedOvershoot(Floor, 2, 1))

\* the loop body as a mode without the volatility filter runs it: the test
\* of self.use_volatility_filter fails and the bar goes to the trend logic
Ungated(s, row, idx) ==
    IF bot = "MaximizePnLBot"
    THEN IF s.current_trend = -1
         THEN M_Down(s, row, idx)
         ELSE M_Up(s, row, idx)
    ELSE IF isnan(row.sma) THEN s
         ELSE IF s.current_trend = -1
              THEN A_Down(s, row, idx)
              ELSE IF s.current_trend = 1 THEN A_Up(s, row, idx) ELSE s

\* C24: a volatility filter that is not triggered is transparent.  In the
\* modes without the filter every bar does what the trend logic alone does.
\* In the modes with the filter (FULL_AI, NO_CLASSIFIER) a bar whose ATR is
\* not above volatility_threshold, met with the pause clear, does the same
\* and leaves the pause clear; the trend logic reads the mode only for the
\* classifier, which FULL_AI shares with NO_VOLATILITY_FILTER and
\* NO_CLASSIFIER with BASELINE.  So on bars none of which has an ATR above
\* the threshold the two runs of a pair go through the same states bar by
\* bar, and return the same ledger and total.
C24_Transparent ==
    [][(BarStep /\ run = 1) =>
         \E row \in NextRows :
             /\ bar' = Observe(row)
             /\ last_close' = row.close
             /\ ~use_volatility_filter =>
                    /\ S' = Ungated(S, row, i)
                    /\ ~is_trading_paused'
             /\ (use_volatility_filter /\ ~is_trading_paused
                    /\ ~Gt(row.atr, Float(params.volatility_threshold))) =>
                    /\ S' = Ungated(S, row, i)
                    /\ ~is_trading_paused']_vars

\* a run with the filter on and no ATR above the threshold: a trade was
\* entered on bar 0 (which a high ATR would have blocked) and closed by the
\* signal on bar 1, whose ATR was not high, and the pause is clear
C24_Witness ==
    /\ use_volatility_filter
    /\ run = 1
    /\ pc = "done"
    /\ i = 2
    /\ ~bar.atr_high
    /\ ~is_trading_paused
    /\ ~is_position_open
    /\ Len(Ledger) = 1
    /\ HasKey(Ledger[1], "exit_price")

====
